---- MODULE Spec2Model ----
(***************************************************************************)
(* State-machine model of the ProPoSal proposal board (src/App.tsx) and    *)
(* its moderation client (src/services/geminiService.ts).                  *)
(*                                                                         *)
(* Literals of the source are written in ASCII:                            *)
(*   categories  "RULES" "FACILITIES" "CURRICULUM" "OTHER"                 *)
(*               for the four entries of CATEGORIES (App.tsx:41),          *)
(*   statuses    "RECEIVED" "UNDER_REVIEW" "COORDINATING" "RESOLVED"       *)
(*               for the four entries of STATUS_STEPS (App.tsx:40).        *)
(* A JavaScript value that may be undefined is a string and the marker     *)
(* Undefined stands for undefined; null objects are records with isNull.   *)
(* Time is counted  in milliseconds, as Date does.                          *)
(***************************************************************************)
EXTENDS Integers, Sequences, FiniteSets, TLC

\* ------------------------------------------------------------------ bounds
\* A run is bounded by a budget of operations (see Scenarios below).
\* edits of the draft, moderation calls started and proposals created in a run
\* that exercises the submission gate
MaxEdits == 4
MaxChecks == 2
MaxCreates == 2
\* logins, toggleSignature calls and updateAdminStatus calls in a run that
\* exercises the proposal store
MaxStoreOps == 3
\* milliseconds the clock advances in one run
MaxTicks == 1
\* proposals in a collection given to the view engine
MaxViewLen == 3

\* --------------------------------------------------------- program constants
\* Date.now() - 86400000 (second seed)
OneDay == 86400000
\* Date.now() - 172800000 (third seed)
TwoDays == 172800000
\* slice(0, 5) of trendingTags
TrendingLimit == 5

\* ------------------------------------------------------------ JS primitives
Undefined == "undefined"
UndefinedTags == <<Undefined>>

\* !s for a string-or-undefined value
Falsy(s) == s \in {"", Undefined}

\* ToBoolean of a boolean-or-undefined value, written "true", "false", Undefined
IsTrue(b) == b = "true"

\* a || b on string-or-undefined values
OrElse(a, b) == IF Falsy(a) THEN b ELSE a

\* JSON.stringify / JSON.parse of the proposal collection: the collection is
\* plain data (numbers, strings, arrays), the document is a string holding it.
NoDocument == [present |-> FALSE, json |-> <<>>]
\* variant: only the first element is written
JSONstringifyHead(c) == [present |-> TRUE, json |-> IF c = <<>> THEN c ELSE <<c[1]>>]
JSONstringify(c) == [present |-> TRUE, json |-> c]
JSONparse(d) == d.json

\* ------------------------------------------------------------------ domains
\* values typed into the title and content inputs
Titles == {"", "T"}
Contents == {"", "C1", "C2"}

\* e-mail addresses and names typed into the login and register forms
Emails == {"demo", "admin@x"}
Names == {"N1"}

\* loginForm.email.includes('admin') || loginForm.email === 'student-council'
IsAdminEmail(e) == e \in {"admin@x", "student-council"}

STATUS_STEPS == <<"RECEIVED", "UNDER_REVIEW", "COORDINATING", "RESOLVED">>
CATEGORIES == <<"RULES", "FACILITIES", "CURRICULUM", "OTHER">>

\* texts typed into the administrator's comment box
Responses == {"", "R1"}

Range(s) == {s[i] : i \in 1..Len(s)}

\* ------------------------------------------------------ moderation client
\* What JSON.parse(text) can yield: an object (fields that are missing are
\* Undefined) or null.
JsonValue(n, a, c, t, rt, rc, ad) ==
    [isNull |-> n, isAppropriate |-> a, category |-> c, tags |-> t,
     refinedTitle |-> rt, refinedContent |-> rc, advice |-> ad]

NullValue == JsonValue(TRUE, Undefined, Undefined, UndefinedTags, Undefined, Undefined, Undefined)

ParsedValues ==
    { JsonValue(FALSE, "true", "RULES", <<"#t">>, "RT", "RC", "A1"),
      JsonValue(FALSE, "true", "CURRICULUM", <<>>, "", Undefined, Undefined),
      JsonValue(FALSE, "false", "FACILITIES", <<"#t">>, "RT", "RC", "A2"),
      JsonValue(FALSE, "false", "OTHER", <<>>, Undefined, Undefined, Undefined),
      JsonValue(FALSE, "true", Undefined, UndefinedTags, Undefined, Undefined, Undefined),
      NullValue }

\* Outcomes of ai.models.generateContent and of reading its text
Outcome(k, v) == [kind |-> k, value |-> v]
NoOutcome == Outcome("none", NullValue)
Outcomes ==
    { Outcome("throw", NullValue), Outcome("notext", NullValue),
      Outcome("badjson", NullValue) }
    \cup { Outcome("json", v) : v \in ParsedValues }

\* geminiService.ts:65-96  a value that has the required fields isAppropriate,
\* category and tags of the response schema, with the schema's types
WellFormed(v) ==
    /\ ~v.isNull
    /\ v.isAppropriate \in {"true", "false"}
    /\ v.category \in Range(CATEGORIES)
    /\ v.tags # UndefinedTags

\* the advice of the catch block
UnavailableAdvice == "AI check temporarily unavailable"

\* What a call of analyzeProposal gives its caller: threw = the promise is
\* rejected, otherwise value is what it resolves to.
Returned(v) == [threw |-> FALSE, value |-> v]
Thrown == [threw |-> TRUE, value |-> NullValue]
NoResult == Returned(NullValue)

FailClosed ==
    JsonValue(FALSE, "false", "OTHER", <<>>, Undefined, Undefined, UnavailableAdvice)

\* variant: JSON.parse outside the try block
analyzeProposalParseOutsideTry(title, content, outcome) ==
    IF outcome.kind = "throw" THEN Returned(FailClosed)
    ELSE IF outcome.kind = "notext" THEN Returned(FailClosed)
    ELSE IF outcome.kind = "badjson" THEN Thrown
    ELSE Returned(outcome.value)

\* geminiService.ts:34
analyzeProposal(title, content, outcome) ==
    IF outcome.kind = "throw" THEN Returned(FailClosed)
    ELSE IF outcome.kind = "notext" THEN Returned(FailClosed)
    ELSE IF outcome.kind = "badjson" THEN Returned(FailClosed)
    ELSE Returned(outcome.value)

\* -------------------------------------------------------------------- state
VARIABLES
    user,          \* useState<User | null>
    view,          \* useState view
    proposals,     \* useState<Proposal[]>
    storage,       \* localStorage item 'schoolProposals'
    postForm,      \* useState post form
    aiAnalysis,    \* useState AI analysis, or null
    isAIApproved,  \* useState(false)
    pending,       \* calls of analyzeProposal awaited by handleAIAnalyze
    now,           \* the system clock, ms
    categoryFilter, \* useState<string>('all')
    searchTerm,    \* useState<string>('')
    sortOrder,     \* useState<'newest' | 'signatures'>('newest')
    budget,        \* operations the run may still perform (bounds the run)
    last,          \* history: the last handler, its inputs and its branch
    needRecheck,   \* history: the draft was edited after an Approved verdict
    judged,        \* history: the call whose verdict last approved the draft
    twice,         \* history: two toggles in a row by one identity on one proposal
    assigned       \* history: every proposal id assigned so far

prog == <<user, view, proposals, storage, postForm, aiAnalysis, isAIApproved, pending, now>>
viewState == <<categoryFilter, searchTerm, sortOrder>>
vars == <<user, view, proposals, storage, postForm, aiAnalysis, isAIApproved, pending, now,
          categoryFilter, searchTerm, sortOrder,
          budget, last, needRecheck, judged, twice, assigned>>

NoUser == [isNull |-> TRUE, id |-> "", name |-> "", role |-> "student"]
User(id, name, role) == [isNull |-> FALSE, id |-> id, name |-> name, role |-> role]

Signature(userId, userName, timestamp) ==
    [userId |-> userId, userName |-> userName, timestamp |-> timestamp]

Proposal(id, title, content, category, status, adminResponse, timestamp, signatures) ==
    [id |-> id, title |-> title, content |-> content, category |-> category,
     status |-> status, adminResponse |-> adminResponse, timestamp |-> timestamp,
     signatures |-> signatures]

NullAnalysis ==
    [isNull |-> TRUE, advice |-> "", loading |-> FALSE,
     detectedCategory |-> Undefined, detectedTags |-> UndefinedTags]
Analysis(advice, loading, detectedCategory, detectedTags) ==
    [isNull |-> FALSE, advice |-> advice, loading |-> loading,
     detectedCategory |-> detectedCategory, detectedTags |-> detectedTags]

EmptyForm == [title |-> "", content |-> "", category |-> ""]

\* A call in flight: its arguments, and two history marks: stale = the draft
\* was edited since the call started, old = the draft was edited while Approved
\* since the call started.
Call(title, content) ==
    [title |-> title, content |-> content, stale |-> FALSE, old |-> FALSE]
NoCall == Call("", "")

\* the seeds of the init effect, created at time t
Seeds(t) ==
    << Proposal(1, "seed1", "seed1 #socks", "RULES", "COORDINATING", "seedR1", t, <<>>),
       Proposal(2, "seed2", "seed2 #canteen #lunch #improve", "FACILITIES", "RECEIVED", "",
                t - OneDay, <<Signature("demo", "DemoTaro", t)>>),
       Proposal(3, "seed3", "seed3", "FACILITIES", "RESOLVED", "seedR3", t - TwoDays, <<>>) >>

\* Collections an earlier session may have saved (App.tsx:102 loads them as they are)
EmptyDocument == JSONstringify(<<>>)
OldDocument ==
    JSONstringify(<< Proposal(5, "old5", "old5 #socks", "OTHER", "UNDER_REVIEW", "", 0,
                              <<Signature("admin@x", "N1", 0)>>) >>)

Last(op, note) ==
    [op |-> op, note |-> note, pid |-> 0, uid |-> "", sigs |-> <<>>, stale |-> FALSE,
     kind |-> "none", result |-> NoResult, saved |-> FALSE]

Budget(edits, checks, creates, storeOps) ==
    [edits |-> edits, checks |-> checks, creates |-> creates, storeOps |-> storeOps]

\* The budgets of a run: a gate run leaves the store alone, a store run leaves
\* the gate alone, a first-draft run takes one draft through the gate, a mixed
\* run interleaves one check and one submission with the store operations.
GateBudget == Budget(MaxEdits, MaxChecks, MaxCreates, 0)
StoreBudget == Budget(0, 0, 0, MaxStoreOps)
FirstDraftBudget == Budget(MaxEdits - 2, MaxChecks - 1, MaxCreates - 1, 0)
MixBudget == Budget(MaxEdits - 2, 1, 1, MaxStoreOps - 2)
\* a run with one check and, while it is in flight, a login and a store operation
PendingBudget == Budget(MaxEdits - 2, 1, 0, MaxStoreOps - 1)

\* A run: the document found in localStorage at mount, and the budget
Scenarios ==
    { <<NoDocument, GateBudget>>, <<EmptyDocument, FirstDraftBudget>>,
      <<NoDocument, StoreBudget>>, <<OldDocument, StoreBudget>>,
      <<OldDocument, MixBudget>>, <<OldDocument, PendingBudget>> }

NoJudged == [valid |-> FALSE, title |-> "", content |-> "", category |-> Undefined,
             refinedTitle |-> Undefined, refinedContent |-> Undefined]
NoTwice == [active |-> FALSE, pid |-> 0, uid |-> "", sigs0 |-> <<>>, had |-> FALSE]

InitEffect(saved) ==
    /\ proposals = (IF saved.present THEN JSONparse(saved) ELSE Seeds(TwoDays))
    /\ storage = (IF saved.present THEN saved ELSE JSONstringify(Seeds(TwoDays)))

InitState ==
    /\ user = NoUser
    /\ view = "home"
    /\ postForm = EmptyForm
    /\ aiAnalysis = NullAnalysis
    /\ isAIApproved = FALSE
    /\ pending = <<>>
    /\ now = TwoDays
    /\ categoryFilter = "all"
    /\ searchTerm = <<>>
    /\ sortOrder = "newest"
    /\ last = Last("init", "")
    /\ needRecheck = FALSE
    /\ judged = NoJudged
    /\ twice = NoTwice

Init ==
    /\ InitState
    /\ \E sc \in Scenarios : InitEffect(sc[1]) /\ budget = sc[2]
    /\ assigned = {proposals[i].id : i \in 1..Len(proposals)}

\* ----------------------------------------------------------------- helpers
RemoveAt(s, i) == SubSeq(s, 1, i - 1) \o SubSeq(s, i + 1, Len(s))

Ids(ps) == {ps[i].id : i \in 1..Len(ps)}

\* Math.max(...xs) for a non-empty set of numbers
MathMax(S) == CHOOSE m \in S : \A x \in S : x <= m

\* new Date(): the clock may have advanced since the last reading
Times == {t \in now..(now + 1) : t <= TwoDays + MaxTicks}

\* localStorage.setItem either stores the document or throws (quota)
WriteResults == BOOLEAN

\* variant: the document is stored also when setItem throws
SetItemAlways(value, ok) == value

\* App.tsx:255, 340, 351  the stored document after localStorage.setItem(key,
\* value): value when it stored it, the old document when it threw
SetItem(value, ok) == IF ok THEN value ELSE storage

Spend(field) == [budget EXCEPT ![field] = @ - 1]

\* ------------------------------------------------------- submission gate
\* App.tsx:228  (onChange of the title input and of the content textarea)
handleInputChange(field, value) ==
    /\ UNCHANGED viewState
    /\ value # postForm[field]
    /\ budget.edits > 0
    /\ budget' = Spend("edits")
    /\ postForm' = [postForm EXCEPT ![field] = value]
    /\ isAIApproved' = FALSE
    /\ aiAnalysis' = NullAnalysis
    /\ pending' = [i \in 1..Len(pending) |->
                     [pending[i] EXCEPT !.stale = TRUE, !.old = @ \/ isAIApproved]]
    /\ needRecheck' = (needRecheck \/ isAIApproved)
    /\ last' = Last("handleInputChange", field)
    /\ twice' = NoTwice
    /\ assigned' = assigned
    /\ judged' = NoJudged
    /\ UNCHANGED <<user, view, proposals, storage, now>>

\* variant: the id is the size of the collection plus one
NewIdByCount(ps) == Len(ps) + 1

\* variant: the id is the largest id of the collection
NewIdNoIncrement(ps) == IF Len(ps) > 0 THEN MathMax(Ids(ps)) ELSE 1

\* App.tsx:242
NewId(ps) == IF Len(ps) > 0 THEN MathMax(Ids(ps)) + 1 ELSE 1

\* variant: the category of the draft, with no fallback
FinalCategoryNoFallback == postForm.category

\* App.tsx:240  (aiAnalysis?.detectedCategory is undefined when aiAnalysis is null)
FinalCategory ==
    OrElse(postForm.category,
           OrElse(IF aiAnalysis.isNull THEN Undefined ELSE aiAnalysis.detectedCategory,
                  "OTHER"))

\* variant: no test of isAIApproved
SubmitBlockedNever == FALSE

\* App.tsx:237  if (!isAIApproved) return;
SubmitBlocked == ~isAIApproved

\* variant: the Proposal is built with the last status
NewProposalResolved(t) ==
    Proposal(NewId(proposals), postForm.title, postForm.content, FinalCategory,
             "RESOLVED", "", t, <<>>)

\* App.tsx:243-252  the Proposal built at time t
NewProposal(t) ==
    Proposal(NewId(proposals), postForm.title, postForm.content, FinalCategory,
             "RECEIVED", "", t, <<>>)

\* variant: the new proposal is put last
AppendLast(p, ps) == ps \o <<p>>

\* App.tsx:253  [newProposal, ...proposals]
Prepend(p, ps) == <<p>> \o ps

\* App.tsx:235  (onSubmit of the post form; its title and content inputs are
\* `required`, so the browser raises no submit event while one is empty)
handlePostSubmit ==
    /\ UNCHANGED viewState
    /\ postForm.title # "" /\ postForm.content # ""
    /\ twice' = NoTwice
    /\ IF SubmitBlocked
       THEN /\ last' = Last("handlePostSubmit", "blocked")
            /\ UNCHANGED <<prog, budget, needRecheck, judged, assigned>>
       ELSE /\ budget.creates > 0
            /\ \E t \in Times, ok \in WriteResults :
                 LET newProposal == NewProposal(t)
                     updated == Prepend(newProposal, proposals)
                 IN /\ now' = t
                    /\ proposals' = updated
                    /\ assigned' = assigned \cup {newProposal.id}
                    /\ budget' = Spend("creates")
                    /\ storage' = SetItem(JSONstringify(updated), ok)
                    /\ IF ok
                       THEN /\ postForm' = EmptyForm
                            /\ aiAnalysis' = NullAnalysis
                            /\ isAIApproved' = FALSE
                            /\ needRecheck' = FALSE
                            /\ judged' = NoJudged
                            /\ last' = [Last("handlePostSubmit", "created") EXCEPT
                                            !.saved = TRUE]
                       ELSE /\ last' = Last("handlePostSubmit", "created-unsaved")
                            /\ UNCHANGED <<postForm, aiAnalysis, isAIApproved,
                                           needRecheck, judged>>
            /\ UNCHANGED <<user, view, pending>>

\* variant: only the title is tested
CheckRejectedTitleOnly == Falsy(postForm.title)

\* App.tsx:263  if (!postForm.title || !postForm.content)
CheckRejected == Falsy(postForm.title) \/ Falsy(postForm.content)

\* App.tsx:262-271  (onClick of the check button, rendered while !isAIApproved
\* and disabled while aiAnalysis?.loading), up to the await
handleAIAnalyze ==
    /\ UNCHANGED viewState
    /\ ~isAIApproved
    /\ ~(~aiAnalysis.isNull /\ aiAnalysis.loading)
    /\ twice' = NoTwice
    /\ assigned' = assigned
    /\ IF CheckRejected
       THEN /\ last' = Last("handleAIAnalyze", "alert")
            /\ UNCHANGED <<prog, budget, needRecheck, judged>>
       ELSE /\ budget.checks > 0
            /\ aiAnalysis' = Analysis("", TRUE, Undefined, UndefinedTags)
            /\ isAIApproved' = FALSE
            /\ judged' = NoJudged
            /\ pending' = Append(pending, Call(postForm.title, postForm.content))
            /\ budget' = Spend("checks")
            /\ last' = Last("handleAIAnalyze", "started")
            /\ UNCHANGED <<user, view, proposals, storage, postForm, now, needRecheck>>

\* variant: the advice of the verdict is shown as it is
DisplayAdviceRaw(r) == r.advice

\* App.tsx:273-278
DisplayAdvice(r) ==
    IF Falsy(r.advice)
    THEN (IF IsTrue(r.isAppropriate) THEN "check complete" ELSE "needs revision")
    ELSE r.advice

\* variant: the category of the draft is kept
RefinedFormKeepCategory(r) ==
    [title |-> OrElse(r.refinedTitle, postForm.title),
     content |-> OrElse(r.refinedContent, postForm.content),
     category |-> postForm.category]

\* App.tsx:290-295  the draft after an approved verdict r
RefinedForm(r) ==
    [title |-> OrElse(r.refinedTitle, postForm.title),
     content |-> OrElse(r.refinedContent, postForm.content),
     category |-> r.category]

\* App.tsx:271-296  (handleAIAnalyze from the await on: the i-th call in flight
\* settles with outcome o; reading result.advice of null throws and ends the
\* handler before any setState)
handleAIAnalyzeResume(i, o) ==
    LET call == pending[i]
        result == analyzeProposal(call.title, call.content, o)
        r == result.value
    IN /\ pending' = RemoveAt(pending, i)
       /\ twice' = NoTwice
       /\ assigned' = assigned
       /\ IF result.threw \/ r.isNull
          THEN /\ last' = [Last("handleAIAnalyzeResume", "threw") EXCEPT
                               !.stale = call.stale, !.kind = o.kind, !.result = result]
               /\ UNCHANGED <<postForm, aiAnalysis, isAIApproved, needRecheck, judged>>
          ELSE /\ aiAnalysis' = Analysis(DisplayAdvice(r), FALSE, r.category, r.tags)
               /\ isAIApproved' = IsTrue(r.isAppropriate)
               /\ postForm' = IF IsTrue(r.isAppropriate) THEN RefinedForm(r) ELSE postForm
               /\ needRecheck' = (needRecheck /\ ~(IsTrue(r.isAppropriate) /\ ~call.old))
               /\ judged' = IF IsTrue(r.isAppropriate)
                             THEN [valid |-> TRUE, title |-> call.title,
                                   content |-> call.content, category |-> r.category,
                                   refinedTitle |-> r.refinedTitle,
                                   refinedContent |-> r.refinedContent]
                             ELSE NoJudged
               /\ last' = [Last("handleAIAnalyzeResume", "applied") EXCEPT
                               !.stale = call.stale, !.kind = o.kind, !.result = result]
       /\ UNCHANGED <<user, view, proposals, storage, now, budget>>
       /\ UNCHANGED viewState

\* ----------------------------------------------------------------- identity
\* App.tsx:200  (the e-mail input is `required`; the handler tests it again)
handleLogin(email) ==
    /\ UNCHANGED viewState
    /\ budget.storeOps > 0
    /\ budget' = Spend("storeOps")
    /\ IF email # ""
       THEN /\ user' = User(email,
                            IF IsAdminEmail(email) THEN "Council" ELSE "Yamada",
                            IF IsAdminEmail(email) THEN "admin" ELSE "student")
            /\ view' = "home"
       ELSE UNCHANGED <<user, view>>
    /\ last' = [Last("handleLogin", "") EXCEPT !.uid = email]
    /\ twice' = NoTwice
    /\ assigned' = assigned
    /\ UNCHANGED <<proposals, storage, postForm, aiAnalysis, isAIApproved, pending, now,
                   needRecheck, judged>>

\* App.tsx:216
handleRegister(name, email) ==
    /\ UNCHANGED viewState
    /\ budget.storeOps > 0
    /\ budget' = Spend("storeOps")
    /\ user' = User(email, name, "student")
    /\ view' = "home"
    /\ last' = [Last("handleRegister", "") EXCEPT !.uid = email]
    /\ twice' = NoTwice
    /\ assigned' = assigned
    /\ UNCHANGED <<proposals, storage, postForm, aiAnalysis, isAIApproved, pending, now,
                   needRecheck, judged>>

\* App.tsx:165  (fetched = the userinfo request answered; otherwise the catch
\* block only alerts)
handleGoogleLoginSuccess(fetched, name, email) ==
    /\ UNCHANGED viewState
    /\ budget.storeOps > 0
    /\ budget' = Spend("storeOps")
    /\ IF fetched
       THEN /\ user' = User(email, name, "student")
            /\ view' = "home"
       ELSE UNCHANGED <<user, view>>
    /\ last' = [Last("handleGoogleLoginSuccess", "") EXCEPT !.uid = email]
    /\ twice' = NoTwice
    /\ assigned' = assigned
    /\ UNCHANGED <<proposals, storage, postForm, aiAnalysis, isAIApproved, pending, now,
                   needRecheck, judged>>

\* App.tsx:457  (the logout button, rendered while a user is logged in)
logout ==
    /\ UNCHANGED viewState
    /\ ~user.isNull
    /\ user' = NoUser
    /\ last' = Last("logout", "")
    /\ twice' = NoTwice
    /\ assigned' = assigned
    /\ UNCHANGED <<view, proposals, storage, postForm, aiAnalysis, isAIApproved, pending,
                   now, budget, needRecheck, judged>>

\* ----------------------------------------------------------- proposal store
\* variant: the identity is never found
FindIndexNever(sigs, id) == 0

\* App.tsx:326  signatures.findIndex(s => s.userId === id): 0 when none (JS: -1)
FindIndex(sigs, id) ==
    IF \E i \in 1..Len(sigs) : sigs[i].userId = id
    THEN CHOOSE i \in 1..Len(sigs) :
            /\ sigs[i].userId = id
            /\ \A j \in 1..(i - 1) : sigs[j].userId # id
    ELSE 0

\* variant: the first entry is removed, whoever made it
ToggledSignaturesRemoveFirst(sigs, u, t) ==
    LET signedIndex == FindIndex(sigs, u.id)
    IN IF signedIndex >= 1
       THEN RemoveAt(sigs, 1)
       ELSE Append(sigs, Signature(u.id, u.name, t))

\* variant: the new entry is put first
ToggledSignaturesPrepend(sigs, u, t) ==
    LET signedIndex == FindIndex(sigs, u.id)
    IN IF signedIndex >= 1
       THEN RemoveAt(sigs, signedIndex)
       ELSE <<Signature(u.id, u.name, t)>> \o sigs

\* App.tsx:326-335  the signatures of the toggled proposal
ToggledSignatures(sigs, u, t) ==
    LET signedIndex == FindIndex(sigs, u.id)
    IN IF signedIndex >= 1
       THEN RemoveAt(sigs, signedIndex)
       ELSE Append(sigs, Signature(u.id, u.name, t))

\* variant: the proposals that are not toggled are dropped
ToggleMapFilter(ps, proposalId, u, t) ==
    LET kept == SelectSeq(ps, LAMBDA p : p.id = proposalId)
    IN [i \in 1..Len(kept) |->
           [kept[i] EXCEPT !.signatures = ToggledSignatures(kept[i].signatures, u, t)]]

\* variant: the signature is toggled in every proposal
ToggleMapEvery(ps, proposalId, u, t) ==
    [i \in 1..Len(ps) |->
        [ps[i] EXCEPT !.signatures = ToggledSignatures(ps[i].signatures, u, t)]]

\* variant: nothing is toggled while a check is in flight
ToggleMapUnlessChecking(ps, proposalId, u, t) ==
    [i \in 1..Len(ps) |->
        IF ps[i].id = proposalId /\ pending = <<>>
        THEN [ps[i] EXCEPT !.signatures = ToggledSignatures(ps[i].signatures, u, t)]
        ELSE ps[i]]

\* App.tsx:324-338
ToggleMap(ps, proposalId, u, t) ==
    [i \in 1..Len(ps) |->
        IF ps[i].id = proposalId
        THEN [ps[i] EXCEPT !.signatures = ToggledSignatures(ps[i].signatures, u, t)]
        ELSE ps[i]]

\* ids a handler may be called with: those of the collection and one of none
CallIds == Ids(proposals) \cup {NewId(proposals)}

SignaturesOf(ps, id) ==
    IF id \in Ids(ps) THEN (CHOOSE p \in Range(ps) : p.id = id).signatures ELSE <<>>

\* variant: no test of the user
AuthRequiredNever == FALSE

\* App.tsx:317  if (!user)
AuthRequired == user.isNull

\* App.tsx:316  (confirmed = the answer to the confirm dialog)
toggleSignature(proposalId, confirmed) ==
    /\ UNCHANGED viewState
    /\ budget.storeOps > 0
    /\ assigned' = assigned
    /\ IF AuthRequired
       THEN /\ view' = IF confirmed THEN "login" ELSE view
            /\ last' = [Last("toggleSignature", "login-required") EXCEPT !.pid = proposalId]
            /\ twice' = NoTwice
            /\ UNCHANGED <<user, proposals, storage, postForm, aiAnalysis, isAIApproved,
                           pending, now, budget, needRecheck, judged>>
       ELSE /\ confirmed
            /\ \E t \in Times, ok \in WriteResults :
                 LET updated == ToggleMap(proposals, proposalId, user, t)
                     had == FindIndex(SignaturesOf(proposals, proposalId), user.id) >= 1
                 IN /\ now' = t
                    /\ proposals' = updated
                    /\ storage' = SetItem(JSONstringify(updated), ok)
                    /\ budget' = Spend("storeOps")
                    /\ last' = [Last("toggleSignature",
                                      IF proposalId \notin Ids(proposals) THEN "no-proposal"
                                      ELSE IF had THEN "unsign" ELSE "sign")
                                 EXCEPT !.pid = proposalId, !.uid = user.id,
                                        !.sigs = SignaturesOf(proposals, proposalId),
                                        !.saved = ok]
                    /\ twice' = IF /\ last.op = "toggleSignature"
                                   /\ last.note \in {"sign", "unsign"}
                                   /\ last.pid = proposalId
                                   /\ last.uid = user.id
                                THEN [active |-> TRUE, pid |-> proposalId, uid |-> user.id,
                                      sigs0 |-> last.sigs,
                                      had |-> last.note = "unsign"]
                                ELSE NoTwice
            /\ UNCHANGED <<user, view, postForm, aiAnalysis, isAIApproved, pending,
                           needRecheck, judged>>

\* variant: every proposal is updated, whatever its id
StatusMapAll(ps, proposalId, newStatus, response) ==
    [i \in 1..Len(ps) |-> [ps[i] EXCEPT !.status = newStatus, !.adminResponse = response]]

\* variant: the signatures of the updated proposal are cleared
StatusMapClearSignatures(ps, proposalId, newStatus, response) ==
    [i \in 1..Len(ps) |->
        IF ps[i].id = proposalId
        THEN [ps[i] EXCEPT !.status = newStatus, !.adminResponse = response,
                           !.signatures = <<>>]
        ELSE ps[i]]

\* the place of a status in the workflow
StepOf(status) == CHOOSE k \in 1..Len(STATUS_STEPS) : STATUS_STEPS[k] = status

\* variant: a status earlier in the workflow is not taken
StatusMapForwardOnly(ps, proposalId, newStatus, response) ==
    [i \in 1..Len(ps) |->
        IF ps[i].id = proposalId
        THEN [ps[i] EXCEPT !.status = IF StepOf(newStatus) >= StepOf(@)
                                      THEN newStatus ELSE @,
                           !.adminResponse = response]
        ELSE ps[i]]

\* App.tsx:344-349
StatusMap(ps, proposalId, newStatus, response) ==
    [i \in 1..Len(ps) |->
        IF ps[i].id = proposalId
        THEN [ps[i] EXCEPT !.status = newStatus, !.adminResponse = response]
        ELSE ps[i]]

\* variant: the administrator menu is drawn for everyone
AdminMenuAlways == TRUE

\* App.tsx:1081  user?.role === 'admin' && (the administrator menu)
AdminMenu == ~user.isNull /\ user.role = "admin"

\* App.tsx:343  (called from the administrator menu, rendered while
\* user?.role === 'admin': its select passes the proposal's own response, its
\* textarea the proposal's own status)
updateAdminStatus(proposalId, newStatus, response) ==
    /\ UNCHANGED viewState
    /\ AdminMenu
    /\ budget.storeOps > 0
    /\ \A p \in Range(proposals) :
          p.id = proposalId => (response = p.adminResponse \/ newStatus = p.status)
    /\ \E ok \in WriteResults :
         LET updated == StatusMap(proposals, proposalId, newStatus, response)
         IN /\ proposals' = updated
            /\ storage' = SetItem(JSONstringify(updated), ok)
            /\ budget' = Spend("storeOps")
            /\ last' = [Last("updateAdminStatus",
                              IF proposalId \in Ids(proposals) THEN "updated"
                              ELSE "no-proposal")
                         EXCEPT !.pid = proposalId, !.saved = ok]
    /\ twice' = NoTwice
    /\ assigned' = assigned
    /\ UNCHANGED <<user, view, postForm, aiAnalysis, isAIApproved, pending, now,
                   needRecheck, judged>>

\* ------------------------------------------------------------ specification
AllResponses == Responses \cup {p.adminResponse : p \in Range(proposals)}

Next ==
    \/ \E v \in Titles : handleInputChange("title", v)
    \/ \E v \in Contents : handleInputChange("content", v)
    \/ handleAIAnalyze
    \/ \E i \in 1..Len(pending), o \in Outcomes : handleAIAnalyzeResume(i, o)
    \/ handlePostSubmit
    \/ \E e \in Emails \cup {""} : handleLogin(e)
    \/ \E n \in Names, e \in Emails : handleRegister(n, e)
    \/ \E f \in BOOLEAN, n \in Names, e \in Emails : handleGoogleLoginSuccess(f, n, e)
    \/ logout
    \/ \E id \in CallIds, c \in BOOLEAN : toggleSignature(id, c)
    \/ \E id \in CallIds, s \in Range(STATUS_STEPS), r \in AllResponses :
          updateAdminStatus(id, s, r)

Spec == Init /\ [][Next]_vars

\* -------------------------------------------------------------- view engine
\* A string the view engine looks into (a search term, a title, a content) is
\* a sequence of characters: letters in two cases, the space, the tag marker
\* "#" and its full-width form, written "##".

\* variant: the text is left in the case it was typed in
ToLowerCaseNone(s) == s

\* String.prototype.toLowerCase
ToLowerCase(s) ==
    [i \in 1..Len(s) |-> IF s[i] = "A" THEN "a" ELSE IF s[i] = "B" THEN "b" ELSE s[i]]

\* String.prototype.includes, scanning from position i
RECURSIVE IncludesFrom(_, _, _)
IncludesFrom(s, sub, i) ==
    IF i + Len(sub) - 1 > Len(s) THEN FALSE
    ELSE IF SubSeq(s, i, i + Len(sub) - 1) = sub THEN TRUE
    ELSE IncludesFrom(s, sub, i + 1)

Includes(s, sub) == IncludesFrom(s, sub, 1)

\* new Date(timestamp).getTime(): toISOString writes the milliseconds, so the
\* string gives back the time it was made from
GetTime(timestamp) == timestamp

\* variant: the comparators with their operands exchanged
CompareAscending(order, a, b) ==
    IF order = "newest" THEN GetTime(a.timestamp) - GetTime(b.timestamp)
    ELSE IF order = "signatures" THEN Len(a.signatures) - Len(b.signatures)
    ELSE a[2] - b[2]

\* App.tsx:365, 367, 380  the comparators given to sort
Compare(order, a, b) ==
    IF order = "newest" THEN GetTime(b.timestamp) - GetTime(a.timestamp)
    ELSE IF order = "signatures" THEN Len(b.signatures) - Len(a.signatures)
    ELSE b[2] - a[2]

\* x put into the sorted sequence s, after the elements that do not come after it
RECURSIVE InsertSorted(_, _, _)
InsertSorted(s, x, order) ==
    IF s = <<>> THEN <<x>>
    ELSE IF Compare(order, s[1], x) > 0 THEN <<x>> \o s
    ELSE <<s[1]>> \o InsertSorted(Tail(s), x, order)

\* Array.prototype.sort (a stable sort)
RECURSIVE SortFrom(_, _, _)
SortFrom(sorted, rest, order) ==
    IF rest = <<>> THEN sorted
    ELSE SortFrom(InsertSorted(sorted, rest[1], order), Tail(rest), order)

Sort(s, order) == SortFrom(<<>>, s, order)

\* App.tsx:356-363  the filters of filteredProposals
Filtered(ps, filter, term) ==
    LET byCategory == IF filter # "all"
                      THEN SelectSeq(ps, LAMBDA p : p.category = filter)
                      ELSE ps
        lower == ToLowerCase(term)
    IN IF term # <<>>
       THEN SelectSeq(byCategory,
                      LAMBDA p : \/ Includes(ToLowerCase(p.title), lower)
                                 \/ Includes(ToLowerCase(p.content), lower))
       ELSE byCategory

\* App.tsx:355-370
filteredProposals(ps, filter, term, order) ==
    Sort(Filtered(ps, filter, term), IF order = "newest" THEN "newest" ELSE "signatures")

\* the characters of the class [#＃] and of the class [^\s　]
Markers == {"#", "##"}
NonSpace(c) == c # " "

\* the end of the longest run of non-space characters that starts at i
RECURSIVE RunEnd(_, _)
RunEnd(s, i) == IF i < Len(s) /\ NonSpace(s[i + 1]) THEN RunEnd(s, i + 1) ELSE i

\* App.tsx:375  content.match(/([#＃][^\s　]+)/g), scanning from position i
\* (the empty sequence stands for null)
RECURSIVE MatchFrom(_, _)
MatchFrom(s, i) ==
    IF i > Len(s) THEN <<>>
    ELSE IF s[i] \in Markers /\ i < Len(s) /\ NonSpace(s[i + 1])
         THEN <<SubSeq(s, i, RunEnd(s, i + 1))>> \o MatchFrom(s, RunEnd(s, i + 1) + 1)
         ELSE MatchFrom(s, i + 1)

Match(content) == MatchFrom(content, 1)

\* App.tsx:377  counts[t] = (counts[t] || 0) + 1; the keys of counts are kept
\* in the order they were first written
AddTag(counts, t) ==
    IF \E i \in 1..Len(counts) : counts[i][1] = t
    THEN [i \in 1..Len(counts) |->
             IF counts[i][1] = t THEN <<t, counts[i][2] + 1>> ELSE counts[i]]
    ELSE Append(counts, <<t, 1>>)

RECURSIVE AddTags(_, _)
AddTags(counts, tags) ==
    IF tags = <<>> THEN counts ELSE AddTags(AddTag(counts, tags[1]), Tail(tags))

RECURSIVE CountFrom(_, _)
CountFrom(counts, ps) ==
    IF ps = <<>> THEN counts
    ELSE CountFrom(AddTags(counts, Match(ps[1].content)), Tail(ps))

\* variant: the first proposal is not scanned
CountTagsSkipFirst(ps) == CountFrom(<<>>, IF ps = <<>> THEN ps ELSE Tail(ps))

\* App.tsx:373-379  Object.entries(counts) after the scan
CountTags(ps) == CountFrom(<<>>, ps)

\* App.tsx:380  slice(0, n)
Slice(s, n) == SubSeq(s, 1, IF Len(s) < n THEN Len(s) ELSE n)

\* App.tsx:372-381
trendingTags(ps) == Slice(Sort(CountTags(ps), "count"), TrendingLimit)

\* the signatures of n users
Signers(n) == [i \in 1..n |-> Signature(IF i = 1 THEN "demo" ELSE "admin@x", "N1", 0)]

\* Proposals the view engine may be given (App.tsx:102 loads any collection)
ViewProposals ==
    { Proposal(1, <<"a">>, <<"#", "a", " ", "#", "a", " ", "#", "b">>,
               "RULES", "RECEIVED", "", 3, Signers(0)),
      Proposal(2, <<"A", "b">>, <<"#", "a", " ", "#", "A">>,
               "FACILITIES", "RECEIVED", "", 2, Signers(2)),
      Proposal(3, <<"b">>, <<"a", "b">>,
               "RULES", "RESOLVED", "", 3, Signers(1)),
      Proposal(4, <<"B", "a">>, <<"a", "#", "b", " ", "#", " ", "#", "a", "b">>,
               "OTHER", "UNDER_REVIEW", "", 1, Signers(2)),
      Proposal(5, <<"a", "b">>, <<"##", "a", " ", "#", "B">>,
               "FACILITIES", "COORDINATING", "", 0, Signers(0)) }

\* the collections of at most MaxViewLen of them, in every order
ViewCollections ==
    UNION { {c \in [1..n -> ViewProposals] : \A i, j \in 1..n : i # j => c[i] # c[j]}
            : n \in 0..MaxViewLen }

\* texts typed into the search box
ViewTerms == {<<>>, <<"a">>, <<"A", "B">>, <<"b", " ">>}

\* the state no view handler writes
viewFixed == <<user, proposals, storage, postForm, aiAnalysis, isAIApproved, pending, now,
               budget, last, needRecheck, judged, twice, assigned>>

\* App.tsx:399, 406, 413  the navigation buttons
setView(v) ==
    /\ view' = v
    /\ UNCHANGED <<viewFixed, viewState>>

\* App.tsx:872-873, 883-884  a category button
setCategoryFilter(cat) ==
    /\ categoryFilter' = cat
    /\ view' = IF view # "proposals" THEN "proposals" ELSE view
    /\ UNCHANGED <<viewFixed, searchTerm, sortOrder>>

\* App.tsx:825  the search box
setSearchTerm(term) ==
    /\ searchTerm' = term
    /\ UNCHANGED <<viewFixed, view, categoryFilter, sortOrder>>

\* App.tsx:850-857  a button of the trending list: the i-th ranked tag
selectTrendingTag(i) ==
    /\ i \in 1..Len(trendingTags(proposals))
    /\ searchTerm' = trendingTags(proposals)[i][1]
    /\ view' = IF view # "proposals" THEN "proposals" ELSE view
    /\ UNCHANGED <<viewFixed, categoryFilter, sortOrder>>

\* App.tsx:529, 535  the sort buttons, drawn in the proposals view (App.tsx:811)
setSortOrder(order) ==
    /\ view = "proposals"
    /\ sortOrder' = order
    /\ UNCHANGED <<viewFixed, view, categoryFilter, searchTerm>>

\* the view engine over a loaded collection
ViewInit ==
    /\ InitState
    /\ \E c \in ViewCollections : InitEffect(JSONstringify(c))
    /\ budget = Budget(0, 0, 0, 0)
    /\ assigned = Ids(proposals)

ViewNext ==
    \/ \E v \in {"home", "proposals", "status"} : setView(v)
    \/ \E cat \in {"all"} \cup Range(CATEGORIES) : setCategoryFilter(cat)
    \/ \E term \in ViewTerms : setSearchTerm(term)
    \/ \E i \in 1..TrendingLimit : selectTrendingTag(i)
    \/ \E order \in {"newest", "signatures"} : setSortOrder(order)

ViewSpec == ViewInit /\ [][ViewNext]_vars

\* =================================================================== claims
Created(l) == l.op = "handlePostSubmit" /\ l.note \in {"created", "created-unsaved"}

\* the entries of sigs that belong to other identities than id, in order
Others(sigs, id) == SelectSeq(sigs, LAMBDA sg : sg.userId # id)

\* C1: once the draft has been edited after an Approved verdict, confirm-submit
\* creates no Proposal until a check started after that edit has returned an
\* approved verdict.
C1_EditBlocksUntilRecheck ==
    [][Created(last') => ~needRecheck]_vars

\* C2: a confirm-submit taken while isAIApproved is false leaves the proposal
\* collection, the persisted document and the draft unchanged.
C2_SubmitBlockedUnlessApproved ==
    [][(last'.op = "handlePostSubmit" /\ ~isAIApproved)
         => (proposals' = proposals /\ storage' = storage /\ postForm' = postForm)]_vars

\* a confirm-submit was refused in the Rejected state
C2_Witness ==
    /\ last.op = "handlePostSubmit" /\ last.note = "blocked"
    /\ ~aiAnalysis.isNull /\ ~aiAnalysis.loading /\ ~isAIApproved

\* C3: the response of a check whose draft was edited while it was in flight
\* is discarded: it changes neither the approval, nor the draft, nor the held
\* verdict.
C3_StaleResponseDiscarded ==
    [][(last'.op = "handleAIAnalyzeResume" /\ last'.stale)
         => (isAIApproved' = isAIApproved /\ postForm' = postForm
             /\ aiAnalysis' = aiAnalysis)]_vars

\* C4: at most one moderation call is in flight at any time.
C4_AtMostOneInFlight == Len(pending) <= 1

\* C5: the title and the content of every created Proposal are those passed to
\* the moderation call whose approved verdict the gate holds, or the refined
\* title and content that call returned.
C5_StoredTextWasJudged ==
    [][Created(last')
         => /\ judged.valid
            /\ proposals'[1].title \in {judged.title, judged.refinedTitle}
            /\ proposals'[1].content \in {judged.content, judged.refinedContent}]_vars

\* C6: no proposal's signatures hold two entries with the same userId.
C6_UniqueSigners ==
    \A p \in Range(proposals) :
        \A i, j \in 1..Len(p.signatures) :
            i # j => p.signatures[i].userId # p.signatures[j].userId

\* an identity signed a proposal that another identity had signed already
C6_Witness ==
    /\ last.op = "toggleSignature" /\ last.note = "sign"
    /\ Len(SignaturesOf(proposals, last.pid)) >= 2

\* C7: two toggles in a row by one identity return the signatures
\* of the proposal, as a sequence, to what they were.
C7_ToggleTwiceRestores ==
    twice.active => SignaturesOf(proposals, twice.pid) = twice.sigs0

\* C7, by what the identity had done before: two toggles in a row by an
\* identity that had not signed return the signatures to what they were; by an
\* identity that had signed, they keep the other identities' entries in their
\* order and put one new entry of the identity at the end.
C7_ToggleTwiceAmended ==
    twice.active =>
        LET sigs == SignaturesOf(proposals, twice.pid)
        IN IF ~twice.had
           THEN sigs = twice.sigs0
           ELSE /\ Len(sigs) = Len(twice.sigs0)
                /\ Others(sigs, twice.uid) = Others(twice.sigs0, twice.uid)
                /\ SubSeq(sigs, 1, Len(sigs) - 1) = Others(twice.sigs0, twice.uid)
                /\ sigs[Len(sigs)] = Signature(user.id, user.name, sigs[Len(sigs)].timestamp)
                /\ sigs[Len(sigs)].timestamp \in {now - 1, now}

\* an identity that had not signed toggled twice a proposal others had signed
C7_Witness == twice.active /\ ~twice.had /\ twice.sigs0 # <<>>

\* C8: create gives the new Proposal the id max(existing ids) + 1, or 1 when
\* the collection is empty.
C8_CreateAssignsMaxPlusOne ==
    [][Created(last')
         => LET n == proposals'[1].id
            IN IF proposals = <<>>
               THEN n = 1
               ELSE /\ (n - 1) \in Ids(proposals)
                    /\ \A id \in Ids(proposals) : id <= n - 1]_vars

\* a Proposal was created in a collection whose largest id is not its length
C8_Witness == Created(last) /\ proposals[1].id = 6 /\ Len(proposals) = 2

\* C9: no two proposals of the collection have the same id, and a created id
\* is greater than every id assigned before.
C9_UniqueIncreasingIds ==
    /\ [](\A i, j \in 1..Len(proposals) : i # j => proposals[i].id # proposals[j].id)
    /\ [][Created(last') => \A id \in assigned : proposals'[1].id > id]_vars

\* two Proposals were created after the three seeds
C9_Witness == Created(last) /\ Len(proposals) = 5 /\ Cardinality(assigned) = 5

\* C10: when the external call throws, returns no text or returns text that
\* does not parse, analyzeProposal returns (does not throw) the fail-closed
\* verdict.
C10_FailClosed ==
    (last.op = "handleAIAnalyzeResume" /\ last.kind \in {"throw", "notext", "badjson"})
        => /\ ~last.result.threw
           /\ ~last.result.value.isNull
           /\ last.result.value.isAppropriate = "false"
           /\ last.result.value.category = "OTHER"
           /\ last.result.value.tags = <<>>
           /\ ~Falsy(last.result.value.advice)

\* a check whose response text did not parse has resolved
C10_Witness == last.op = "handleAIAnalyzeResume" /\ last.kind = "badjson"

\* C11: toggleSignature called while no user is logged in leaves the proposal
\* collection, the persisted document and the user unchanged; the view is kept
\* or becomes the login view.
C11_NoIdentityNoEndorsement ==
    [][(last'.op = "toggleSignature" /\ user.isNull)
         => /\ proposals' = proposals
            /\ storage' = storage
            /\ user' = user
            /\ view' \in {view, "login"}]_vars

\* an anonymous toggle of an existing proposal was answered by the login view
C11_Witness ==
    /\ last.op = "toggleSignature" /\ last.note = "login-required"
    /\ last.pid \in Ids(proposals) /\ user.isNull /\ view = "login"

\* C12: updateAdminStatus called with an id no proposal has leaves the
\* collection and the persisted document unchanged and its write does not throw.
C12_AbsentIdIsNoOp ==
    [][(last'.op = "updateAdminStatus" /\ last'.note = "no-proposal")
         => /\ proposals' = proposals
            /\ storage' = storage
            /\ last'.saved]_vars

\* C12, with the write it performs: updateAdminStatus called with an id no
\* proposal has leaves the collection unchanged; it writes the unchanged
\* collection, so the persisted document is unchanged when it held the
\* collection before the call or when the write throws, and holds the
\* collection after a write that does not throw.
C12_AbsentIdKeepsCollection ==
    [][(last'.op = "updateAdminStatus" /\ last'.note = "no-proposal")
         => /\ proposals' = proposals
            /\ (storage = JSONstringify(proposals) \/ ~last'.saved) => storage' = storage
            /\ last'.saved => storage' = JSONstringify(proposals)]_vars

\* the administrator set the status of an id no proposal has, and the write
\* did not throw
C12_Witness ==
    /\ last.op = "updateAdminStatus" /\ last.note = "no-proposal" /\ last.saved
    /\ last.pid \notin Ids(proposals)

\* C13: for an existing proposal and a logged-in user, toggleSignature removes
\* the user's entry when there is one and adds none, and otherwise appends one
\* entry with the user's id and name at the end; the length changes by one.
C13_ToggleRemovesOrAppends ==
    [][(last'.op = "toggleSignature" /\ last'.note \in {"sign", "unsign"})
         => LET before == SignaturesOf(proposals, last'.pid)
                after == SignaturesOf(proposals', last'.pid)
            IN IF \E i \in 1..Len(before) : before[i].userId = user.id
               THEN /\ after = Others(before, user.id)
                    /\ Len(after) = Len(before) - 1
               ELSE /\ Len(after) = Len(before) + 1
                    /\ SubSeq(after, 1, Len(before)) = before
                    /\ after[Len(after)].userId = user.id
                    /\ after[Len(after)].userName = user.name]_vars

\* a user removed their entry from signatures that held two entries
C13_Witness ==
    /\ last.op = "toggleSignature" /\ last.note = "unsign"
    /\ Len(last.sigs) = 2 /\ Len(SignaturesOf(proposals, last.pid)) = 1

\* C14: a confirm-submit that creates and saves puts exactly one new Proposal
\* in front of the collection, with status RECEIVED, an empty adminResponse, no
\* signatures and the title and content of the draft; afterwards the draft is
\* empty, no analysis is held and the gate is not approved.
C14_SubmitCreatesAndResets ==
    [][(last'.op = "handlePostSubmit" /\ last'.note = "created")
         => /\ Len(proposals') = Len(proposals) + 1
            /\ SubSeq(proposals', 2, Len(proposals')) = proposals
            /\ proposals'[1].status = "RECEIVED"
            /\ proposals'[1].adminResponse = ""
            /\ proposals'[1].signatures = <<>>
            /\ proposals'[1].title = postForm.title
            /\ proposals'[1].content = postForm.content
            /\ postForm' = EmptyForm
            /\ aiAnalysis' = NullAnalysis
            /\ ~isAIApproved']_vars

\* a draft with the refined title and content was submitted and saved
C14_Witness ==
    /\ last.op = "handlePostSubmit" /\ last.note = "created"
    /\ proposals[1].title = "RT" /\ proposals[1].content = "RC"

\* C15: a check requested while the title or the content of the draft is empty
\* starts no call and leaves the draft, the analysis, the approval and the
\* collection unchanged.
C15_EmptyDraftCheckRejected ==
    [][(last'.op = "handleAIAnalyze" /\ (postForm.title = "" \/ postForm.content = ""))
         => /\ pending' = pending
            /\ postForm' = postForm
            /\ aiAnalysis' = aiAnalysis
            /\ isAIApproved' = isAIApproved
            /\ proposals' = proposals]_vars

\* a check of a draft with a title and no content was refused
C15_Witness ==
    /\ last.op = "handleAIAnalyze" /\ last.note = "alert"
    /\ postForm.title # "" /\ postForm.content = ""

\* C16: when a check returns an approved verdict, the gate is approved, the
\* title (the content) of the draft becomes the refined title (content) when
\* the verdict has a non-empty one and is kept otherwise, the category of the
\* draft becomes the verdict's, and the analysis holds the verdict's category
\* and tags.
C16_ApprovedVerdictApplied ==
    [][(last'.op = "handleAIAnalyzeResume" /\ last'.note = "applied"
        /\ last'.result.value.isAppropriate = "true")
         => LET r == last'.result.value
            IN /\ isAIApproved'
               /\ postForm'.title = (IF r.refinedTitle \in {"", Undefined}
                                      THEN postForm.title ELSE r.refinedTitle)
               /\ postForm'.content = (IF r.refinedContent \in {"", Undefined}
                                        THEN postForm.content ELSE r.refinedContent)
               /\ postForm'.category = r.category
               /\ aiAnalysis'.detectedCategory = r.category
               /\ aiAnalysis'.detectedTags = r.tags]_vars

\* an approved verdict replaced the title and the content of the draft
C16_Witness ==
    /\ last.op = "handleAIAnalyzeResume" /\ last.result.value.isAppropriate = "true"
    /\ isAIApproved /\ postForm = [title |-> "RT", content |-> "RC", category |-> "RULES"]
    /\ aiAnalysis.detectedTags = <<"#t">>

\* C17: when a check returns a verdict that is not approved (the fail-closed
\* verdict included), the gate is not approved, the analysis holds a non-empty
\* advice and is not loading (so the check button is enabled again), and the
\* title, content and category of the draft are unchanged.
C17_RejectedVerdictApplied ==
    [][(last'.op = "handleAIAnalyzeResume" /\ last'.note = "applied"
        /\ last'.result.value.isAppropriate = "false")
         => /\ ~isAIApproved'
            /\ postForm' = postForm
            /\ ~aiAnalysis'.isNull
            /\ ~aiAnalysis'.loading
            /\ aiAnalysis'.advice \notin {"", Undefined}]_vars

\* a check whose external call threw ended with the advice of the catch block
C17_Witness ==
    /\ last.op = "handleAIAnalyzeResume" /\ last.kind = "throw"
    /\ ~isAIApproved /\ ~aiAnalysis.isNull /\ aiAnalysis.advice = UnavailableAdvice
    /\ postForm.title = "T"

\* C18: the category of a created Proposal is not empty: it is the category
\* of the verdict that approved the draft, or OTHER when that verdict has none.
C18_CreatedCategory ==
    [][Created(last')
         => /\ proposals'[1].category \notin {"", Undefined}
            /\ judged.valid
            /\ proposals'[1].category =
                   (IF judged.category \in {"", Undefined} THEN "OTHER" ELSE judged.category)]_vars

\* a draft approved by a verdict without category was stored as OTHER
C18_Witness == Created(last) /\ proposals[1].category = "OTHER"

\* C19: a response that parses but lacks a required field (or is null) makes
\* analyzeProposal return the fail-closed verdict: what analyzeProposal returns
\* for a response that parses is well formed (the response itself or the
\* fail-closed verdict), so the gate is never approved by a value that is not.
C19_MalformedResponseFailsClosed ==
    (last.op = "handleAIAnalyzeResume" /\ last.kind = "json")
        => /\ ~last.result.threw
           /\ WellFormed(last.result.value)

\* C20: after mount, and after every handlePostSubmit, toggleSignature and
\* updateAdminStatus whose write did not throw, the persisted document is the
\* proposal collection.
C20_DocumentEqualsCollection ==
    (\/ last.op = "init"
     \/ (last.op \in {"handlePostSubmit", "toggleSignature", "updateAdminStatus"}
         /\ last.saved))
        => (storage.present /\ JSONparse(storage) = proposals)

\* a user signed and unsigned a proposal, and the second write did not throw
C20_Witness ==
    /\ last.op = "toggleSignature" /\ last.saved /\ last.note = "unsign"
    /\ twice.active /\ ~twice.had

\* ------------------------------------------------------------------ C21
\* the list shown for the current collection, filters and sort order
Displayed == filteredProposals(proposals, categoryFilter, searchTerm, sortOrder)

\* the proposals that pass the current filters, in collection order
Matching == Filtered(proposals, categoryFilter, searchTerm)

\* how many times x occurs in the sequence s
Occurrences(s, x) == Cardinality({i \in 1..Len(s) : s[i] = x})

\* s and t hold the same elements the same number of times
IsPermutation(s, t) ==
    /\ Len(s) = Len(t)
    /\ \A i \in 1..Len(s) : Occurrences(s, s[i]) = Occurrences(t, s[i])

\* C21: for every collection and every filter setting, the displayed list
\* under sort order 'signatures' is non-increasing in endorsement count, under
\* 'newest' it is non-increasing in creation timestamp, and in both cases it
\* is a permutation of the filtered proposals.
C21_DisplayedIsSortedPermutation ==
    /\ IsPermutation(Displayed, Matching)
    /\ \A i \in 1..Len(Displayed) - 1 :
          /\ sortOrder = "signatures" =>
                Len(Displayed[i].signatures) >= Len(Displayed[i + 1].signatures)
          /\ sortOrder = "newest" =>
                Displayed[i].timestamp >= Displayed[i + 1].timestamp

\* three proposals are shown by endorsement count, in an order the collection
\* did not have, two of them with the same count
C21_Witness ==
    /\ sortOrder = "signatures"
    /\ Len(Displayed) >= 3
    /\ Displayed # Matching
    /\ \E i \in 1..Len(Displayed) - 1 :
          Len(Displayed[i].signatures) = Len(Displayed[i + 1].signatures)

\* ------------------------------------------------------------------ C22
\* the orders in which the proposals of ps can be scanned
Perms(ps) ==
    { [i \in 1..Len(ps) |-> ps[f[i]]] :
        f \in {g \in [1..Len(ps) -> 1..Len(ps)] :
                 \A i, j \in 1..Len(ps) : i # j => g[i] # g[j]} }

\* the counts of a ranked list, in rank order
CountsOf(ranked) == [i \in 1..Len(ranked) |-> ranked[i][2]]

\* C22 (as stated): trendingTags returns the same ranked list of (tag, count)
\* pairs for every permutation of the collection, including when several tags
\* have equal counts.
C22_TrendingTagsOrderInvariant ==
    \A q \in Perms(proposals) : trendingTags(q) = trendingTags(proposals)

\* C22 (amended): for every permutation of the collection the ranked list
\* carries the same counts in the same ranks and every listed tag carries the
\* count it has over the whole collection; the list itself is the same when
\* no two tags have equal counts.
C22_TrendingCountsOrderInvariant ==
    LET ranked == trendingTags(proposals)
        counts == CountTags(proposals)
        distinct == \A i, j \in 1..Len(counts) : i # j => counts[i][2] # counts[j][2]
    IN \A q \in Perms(proposals) :
          /\ CountsOf(trendingTags(q)) = CountsOf(ranked)
          /\ Range(trendingTags(q)) \subseteq Range(counts)
          /\ distinct => trendingTags(q) = ranked

\* a collection of three proposals with more tags than the list holds, some
\* with equal counts, whose ranked list changes with the scan order
C22_Witness ==
    /\ Len(proposals) = 3
    /\ Len(CountTags(proposals)) > TrendingLimit
    /\ \E q \in Perms(proposals) : trendingTags(q) # trendingTags(proposals)

\* ------------------------------------------------------------------ C23
\* the two cases of a letter
LetterCases == {<<"a", "A">>, <<"b", "B">>}

SameLetter(c, d) == c = d \/ <<c, d>> \in LetterCases \/ <<d, c>> \in LetterCases

\* term occurs in text, the case of letters apart
OccursIn(term, text) ==
    \E k \in 0..Len(text) - Len(term) :
        \A i \in 1..Len(term) : SameLetter(term[i], text[k + i])

\* the proposal passes the category filter and the search term
Passes(p) ==
    /\ categoryFilter = "all" \/ p.category = categoryFilter
    /\ searchTerm = <<>> \/ OccursIn(searchTerm, p.title) \/ OccursIn(searchTerm, p.content)

\* C23: the filtered view contains exactly the proposals whose category is the
\* category filter (or the filter is 'all') and whose title or content holds
\* the search term as a case-insensitive substring (or the term is empty).
C23_FilteredViewExact ==
    /\ Range(Displayed) = {p \in Range(proposals) : Passes(p)}
    /\ Len(Displayed) = Cardinality({p \in Range(proposals) : Passes(p)})

\* both filters are set; a proposal is shown whose text holds the term only
\* in another case, and another proposal is left out
C23_Witness ==
    /\ categoryFilter # "all"
    /\ searchTerm # <<>>
    /\ \E p \in Range(Displayed) :
          /\ ~Includes(p.title, searchTerm)
          /\ ~Includes(p.content, searchTerm)
    /\ \E p \in Range(proposals) : p.category = categoryFilter /\ p \notin Range(Displayed)

\* ------------------------------------------------------------------ C24
\* C24: a step that creates a Proposal puts it at the head of the collection
\* and leaves every proposal that was there unchanged and in the same order.
C24_CreateAtHead ==
    [][Created(last') =>
          /\ Len(proposals') = Len(proposals) + 1
          /\ proposals'[1].id \notin Ids(proposals)
          /\ proposals'[1].title = postForm.title
          /\ proposals'[1].content = postForm.content
          /\ \A i \in 1..Len(proposals) : proposals'[i + 1] = proposals[i]]_vars

\* a Proposal was created in front of an endorsed one
C24_Witness ==
    /\ Created(last)
    /\ Len(proposals) >= 2
    /\ proposals[1].signatures = <<>>
    /\ proposals[2].signatures # <<>>

\* ------------------------------------------------------------------ C25
\* C25: setStatus on an existing id replaces the status and the adminResponse
\* of that proposal only: its other fields and every other proposal are
\* unchanged, and the collection keeps its order.
C25_StatusUpdateIsLocal ==
    [][(last'.op = "updateAdminStatus" /\ last'.note = "updated") =>
          /\ Len(proposals') = Len(proposals)
          /\ \A i \in 1..Len(proposals) :
                IF proposals[i].id = last'.pid
                THEN proposals'[i] = [proposals[i] EXCEPT
                                         !.status = proposals'[i].status,
                                         !.adminResponse = proposals'[i].adminResponse]
                ELSE proposals'[i] = proposals[i]]_vars

\* the status of an endorsed proposal was set, in a collection of several
C25_Witness ==
    /\ last.op = "updateAdminStatus" /\ last.note = "updated"
    /\ SignaturesOf(proposals, last.pid) # <<>>
    /\ Len(proposals) >= 2
    /\ \E p \in Range(proposals) : p.id = last.pid /\ p.status = "RESOLVED"

\* ------------------------------------------------------------------ C26
\* the administrator's menu is drawn
IsAdmin == ~user.isNull /\ user.role = "admin"

\* the status the proposal with this id has in the collection ps
StatusOf(ps, id) == (CHOOSE p \in Range(ps) : p.id = id).status

\* C26: every proposal has one of the four statuses at all times, and for
\* every proposal and every one of the four statuses t, those before its
\* current status included, setStatus to t is accepted and leaves the
\* proposal with status t.
C26_AnyStatusTransition ==
    /\ \A p \in Range(proposals) : p.status \in Range(STATUS_STEPS)
    /\ (IsAdmin /\ budget.storeOps > 0) =>
          \A p \in Range(proposals), t \in Range(STATUS_STEPS) :
             /\ ENABLED updateAdminStatus(p.id, t, p.adminResponse)
             /\ ~ENABLED (/\ updateAdminStatus(p.id, t, p.adminResponse)
                          /\ StatusOf(proposals', p.id) # t)

\* the resolved seed proposal was set back to the first status
C26_Witness ==
    /\ last.op = "updateAdminStatus" /\ last.note = "updated" /\ last.pid = 3
    /\ storage = JSONstringify(proposals)
    /\ \E p \in Range(proposals) : p.id = 3 /\ p.status = "RECEIVED"

\* ------------------------------------------------------------------ C27
\* C27: no step deletes a proposal: every id of the collection before a step
\* is in the collection after it, and the collection does not get shorter.
C27_NoProposalDeleted ==
    [][/\ Ids(proposals) \subseteq Ids(proposals')
       /\ Len(proposals') >= Len(proposals)]_vars

\* the only endorsement of a proposal was withdrawn and the proposal is kept
C27_Witness ==
    /\ last.op = "toggleSignature" /\ last.note = "unsign"
    /\ last.pid \in Ids(proposals)
    /\ SignaturesOf(proposals, last.pid) = <<>>
    /\ Len(proposals) >= 3

\* ------------------------------------------------------------------ C28
\* the user has endorsed the proposal with this id in the collection ps
Endorsed(ps, id) == FindIndex(SignaturesOf(ps, id), user.id) >= 1

\* C28: while a check is in flight, toggleEndorsement and setStatus stay
\* enabled and take their full effect (the endorsement is added or withdrawn,
\* the status is the one passed), and the resolution of a check changes
\* neither the collection nor its stored document.
C28_StoreOpsDuringCheck ==
    /\ []((pending # <<>> /\ budget.storeOps > 0 /\ ~user.isNull) =>
            \A p \in Range(proposals) :
               /\ ENABLED toggleSignature(p.id, TRUE)
               /\ ~ENABLED (/\ toggleSignature(p.id, TRUE)
                            /\ Endorsed(proposals', p.id) = Endorsed(proposals, p.id))
               /\ IsAdmin =>
                     \A t \in Range(STATUS_STEPS) :
                        /\ ENABLED updateAdminStatus(p.id, t, p.adminResponse)
                        /\ ~ENABLED (/\ updateAdminStatus(p.id, t, p.adminResponse)
                                     /\ StatusOf(proposals', p.id) # t))
    /\ [][last'.op = "handleAIAnalyzeResume" =>
              proposals' = proposals /\ storage' = storage]_vars

\* an endorsement was given and stored while a check was in flight
C28_Witness ==
    /\ pending # <<>>
    /\ last.op = "toggleSignature" /\ last.note = "sign" /\ last.saved
    /\ Endorsed(proposals, last.pid)
    /\ storage = JSONstringify(proposals)

\* ------------------------------------------------------------------ C29
\* C29: Approved excludes Checking: whenever the gate is approved, no check
\* is in flight, and a verdict is held that is not loading.
C29_ApprovedExcludesChecking ==
    isAIApproved => (pending = <<>> /\ ~aiAnalysis.isNull /\ ~aiAnalysis.loading)

\* ------------------------------------------------------------------ C30
\* C30: Submitted is terminal: a response that arrives right after a
\* submission created and stored a Proposal leaves the gate not approved and
\* the draft empty.
C30_SubmittedIsTerminal ==
    [][(/\ last.op = "handlePostSubmit" /\ last.note = "created"
        /\ last'.op = "handleAIAnalyzeResume") =>
          (~isAIApproved' /\ postForm' = EmptyForm)]_vars

\* ------------------------------------------------------------------ C31
\* C31: every Proposal of the collection and of the stored document has a
\* non-empty title and a non-empty content, and whenever the gate is approved
\* the title and the content of the draft are non-empty.
C31_RequiredFieldsNonEmpty ==
    /\ \A p \in Range(proposals) : p.title # "" /\ p.content # ""
    /\ storage.present =>
          \A p \in Range(JSONparse(storage)) : p.title # "" /\ p.content # ""
    /\ isAIApproved => (postForm.title # "" /\ postForm.content # "")

\* ------------------------------------------------------------------ C32
\* the check button shows a check in progress (aiAnalysis?.loading)
Loading == ~aiAnalysis.isNull /\ aiAnalysis.loading

\* every call in flight settles: the external call returns or fails
LiveSpec ==
    Spec /\ WF_vars(\E i \in 1..Len(pending), o \in Outcomes : handleAIAnalyzeResume(i, o))

\* C32: every check that is started resolves: when the external call returns
\* or fails, the loading flag is cleared in the end, so that a further check
\* or a submit becomes possible.
C32_CheckResolves == Loading ~> ~Loading

\* ------------------------------------------------------------------ C33
\* the status and the administrator's response of every proposal of ps are
\* the same in qs
SameReview(ps, qs) ==
    \A p \in Range(ps) :
        \E q \in Range(qs) :
            q.id = p.id /\ q.status = p.status /\ q.adminResponse = p.adminResponse

\* C33: a step taken with no identity or with an identity that is not an
\* administrator changes the status and the adminResponse of no existing
\* proposal.
C33_ReviewOnlyByAdmin ==
    [][~IsAdmin => SameReview(proposals, proposals')]_vars

\* a member endorsed a proposal that has an administrator's response
C33_Witness ==
    /\ ~user.isNull /\ user.role # "admin"
    /\ last.op = "toggleSignature" /\ last.note = "sign" /\ last.uid = user.id
    /\ \E p \in Range(proposals) :
          p.id = last.pid /\ p.adminResponse # "" /\ p.status # "RECEIVED"

\* ------------------------------------------------------------------ C34
\* C34: a toggleEndorsement step changes only the endorsement list of the
\* proposal with the id passed and, in it, only the entry of the acting
\* identity: the entries of the other identities keep their values and their
\* order, the other fields and the other proposals are unchanged, and with an
\* id of no proposal the collection is unchanged.
C34_ToggleIsLocal ==
    [][last'.op = "toggleSignature" =>
          /\ Len(proposals') = Len(proposals)
          /\ \A i \in 1..Len(proposals) :
                IF proposals[i].id = last'.pid
                THEN /\ proposals'[i] =
                           [proposals[i] EXCEPT !.signatures = proposals'[i].signatures]
                     /\ Others(proposals'[i].signatures, last'.uid) =
                           Others(proposals[i].signatures, last'.uid)
                ELSE proposals'[i] = proposals[i]
          /\ last'.pid \notin Ids(proposals) => proposals' = proposals]_vars

\* an identity endorsed a proposal that another identity had endorsed, in a
\* collection with other endorsed proposals
C34_Witness ==
    /\ last.op = "toggleSignature" /\ last.note = "sign"
    /\ Others(SignaturesOf(proposals, last.pid), last.uid) # <<>>
    /\ Len(SignaturesOf(proposals, last.pid)) >= 2
    /\ Len(proposals) >= 3

\* ------------------------------------------------------------------ C35
\* the step was a store mutation whose write failed
WriteFailed(l) ==
    /\ \/ l.op = "handlePostSubmit" /\ l.note = "created-unsaved"
       \/ l.op = "toggleSignature" /\ l.note \in {"sign", "unsign"}
       \/ l.op = "updateAdminStatus" /\ l.note = "updated"
    /\ ~l.saved

\* C35: when the write of a store mutation fails, the collection in memory
\* holds the change (the created Proposal, the toggled endorsement, the status
\* passed) while the stored document is the one from before; every document
\* that is stored is the collection in memory at that step, so the stored
\* document is never ahead of it; and a create whose write failed keeps the
\* draft, its verdict and its approval.
C35_MemoryAheadOnWriteFailure ==
    /\ [][WriteFailed(last') =>
             /\ storage' = storage
             /\ last'.note = "created-unsaved" =>
                   /\ Len(proposals') = Len(proposals) + 1
                   /\ proposals'[1].id \notin Ids(JSONparse(storage'))
                   /\ postForm' = postForm /\ aiAnalysis' = aiAnalysis
                   /\ isAIApproved /\ isAIApproved'
             /\ last'.note = "sign" =>
                   ~Endorsed(proposals, last'.pid) /\ Endorsed(proposals', last'.pid)
             /\ last'.note = "unsign" =>
                   Endorsed(proposals, last'.pid) /\ ~Endorsed(proposals', last'.pid)]_vars
    /\ []((IsAdmin /\ budget.storeOps > 0) =>
            \A p \in Range(proposals), t \in Range(STATUS_STEPS) :
               /\ ENABLED (/\ updateAdminStatus(p.id, t, p.adminResponse)
                           /\ WriteFailed(last'))
               /\ ~ENABLED (/\ updateAdminStatus(p.id, t, p.adminResponse)
                            /\ WriteFailed(last')
                            /\ StatusOf(proposals', p.id) # t \/ storage' # storage))
    /\ [][storage' # storage => storage' = JSONstringify(proposals')]_vars

\* the write of a create failed: the collection holds a Proposal the stored
\* document has not, and the draft is still approved
C35_Witness ==
    /\ last.op = "handlePostSubmit" /\ last.note = "created-unsaved"
    /\ storage.present
    /\ Len(proposals) = Len(JSONparse(storage)) + 1
    /\ proposals[1].id \notin Ids(JSONparse(storage))
    /\ isAIApproved /\ postForm.title # ""

====
